---- MODULE Spec2Model ----
(***************************************************************************)
(* Dress-Up server: the product catalogue handlers and the registration    *)
(* and login handlers of src/index.js, and the older variant of the same   *)
(* server kept in src/unnamed/part_000.                                     *)
(*                                                                          *)
(* Every handler is an async function.  It runs without interruption up to *)
(* an await and is resumed with the result of the awaited call, so a       *)
(* handler is modelled as one action per awaited call.  A store call       *)
(* either executes atomically against the collection or rejects.           *)
(*                                                                          *)
(* The user collection and the product collection share nothing, so the    *)
(* account handlers (SpecAuth) and the catalogue handlers (SpecCrud,       *)
(* SpecList) are also checked apart; Spec is their interleaving.           *)
(***************************************************************************)
EXTENDS Integers, Sequences, FiniteSets, TLC

\* Number of register/login requests that can be in flight together.
NumAuthReqs == 2

AuthReqs == 1..NumAuthReqs

\* A field no value was given for (a missing body field, a missing property).
Undefined == "undefined"

\* Request bodies the clients send.
Emails == {"ann@x.io", "root@x.io"}
Passwords == {"pw1", "pw2", Undefined}

\* Number of product create/read/update/delete requests that can be in
\* flight together.
NumCrudReqs == 2

CrudReqs == 1..NumCrudReqs

\* A listing writes nothing, so two listings cannot affect each other: one
\* listing is followed, next to the requests that write.
ListReqs == {1}

\* Number of products the collection can hold when the server starts.
MaxSeed == 2

VARIABLES
    server,     \* the file that is running: "index.js" or "part_000"
    users,      \* the "users" collection, in insertion (natural) order
    auth,       \* per register/login request: the handler's position and locals
    products,   \* the "products" collection, in insertion (natural) order
    nextId,     \* the next identifier the store assigns to an inserted product
    list,       \* per listing request: the handler's position and locals
    crud        \* per create/read/update/delete request: position and locals

accounts == <<users, auth>>
catalogue == <<products, nextId, list, crud>>
vars == <<server, users, auth, products, nextId, list, crud>>

Servers == {"index.js", "part_000"}

(***************************************************************************)
(* Library calls of the account handlers.                                  *)
(***************************************************************************)

\* bcrypt.hash(password, 10): a one-way image of the password.
Hash(password) == <<"bcrypt", 10, password>>

\* bcrypt.compare(password, hash).
Compare(password, hash) == hash = Hash(password)

\* bcrypt.hash and bcrypt.compare reject when the data argument is missing.
BcryptRejects(password) == password = Undefined

\* obj.key in JavaScript: undefined when obj has no such property.
Field(obj, key) == IF key \in DOMAIN obj THEN obj[key] ELSE Undefined

\* jwt.sign(payload, secret, {expiresIn}): the claims a verifier decodes from
\* the token.  The payload is serialised with JSON.stringify, which drops the
\* properties whose value is undefined.
Sign(payload) ==
    [k \in {f \in DOMAIN payload : payload[f] # Undefined} |-> payload[k]]

\* A lookup on a property the documents do not have: it never finds one.
FindOneByAbsentField(coll, email) == <<>>

\* collection.findOne({email}): the first document with that email, if any.
\* The result is <<>> for null and <<doc>> for a document.
FindOneByEmail(coll, email) ==
    LET hits == {i \in 1..Len(coll) : coll[i].email = email}
    IN  IF hits = {} THEN <<>>
        ELSE <<coll[CHOOSE i \in hits : \A j \in hits : i <= j]>>

\* What collection.insertOne(doc) resolves to: the acknowledgement of the
\* write, not the document.
InsertOneResult(coll) == [acknowledged |-> TRUE, insertedId |-> Len(coll) + 1]

\* insertOne against a collection that refuses a second document with the
\* same email.
InsertOneUniqueEmail(coll, doc) ==
    IF \E i \in 1..Len(coll) : coll[i].email = doc.email THEN coll
    ELSE Append(coll, doc)

\* collection.insertOne(doc): the collection has no unique index.
InsertOne(coll, doc) == Append(coll, doc)

(***************************************************************************)
(* Requests.                                                               *)
(***************************************************************************)

NoResponse == [status |-> 0]

IdleAuth ==
    [kind |-> "none", pc |-> "idle", email |-> Undefined, password |-> Undefined,
     user |-> <<>>, hashed |-> <<>>, res |-> NoResponse, failed |-> "",
     prior |-> {}]

\* The requests that had been answered when a new request arrives.  Every
\* request records them on arrival (prior), which is what "one after the
\* other" means for two requests.
Answered(reqs) == {q \in DOMAIN reqs : reqs[q].pc = "done"}

\* A user somebody put in the collection before the server started.
SeedUser == [email |-> "root@x.io", password |-> Hash("pw1"), role |-> "admin"]

(***************************************************************************)
(* POST /api/v1/register                                                   *)
(***************************************************************************)

RegisterStart(r, email, password) ==
    /\ auth[r].pc = "idle"
    /\ auth' = [auth EXCEPT ![r] =
                  [IdleAuth EXCEPT !.kind = "register", !.pc = "findOne",
                                   !.email = email, !.password = password,
                                   !.prior = Answered(auth)]]
    /\ UNCHANGED <<server, users, catalogue>>

\* const existingUser = await collection.findOne({ email });
RegisterFindOne(r) ==
    /\ auth[r].kind = "register" /\ auth[r].pc = "findOne"
    /\ LET existingUser == FindOneByEmail(users, auth[r].email)
       IN  auth' = [auth EXCEPT ![r] =
                IF existingUser # <<>>
                THEN [@ EXCEPT !.user = existingUser, !.pc = "done",
                               !.res = [status |-> 400, success |-> FALSE,
                                        message |-> "User already exists!"]]
                ELSE [@ EXCEPT !.user = existingUser, !.pc = "hash"]]
    /\ UNCHANGED <<server, users, catalogue>>

\* const hashedPassword = await bcrypt.hash(password, 10);
RegisterHash(r) ==
    /\ auth[r].kind = "register" /\ auth[r].pc = "hash"
    /\ auth' = [auth EXCEPT ![r] =
                  IF BcryptRejects(auth[r].password)
                  THEN [@ EXCEPT !.pc = "rejected", !.failed = "bcrypt"]
                  ELSE [@ EXCEPT !.hashed = Hash(auth[r].password),
                                 !.pc = "insertOne"]]
    /\ UNCHANGED <<server, users, catalogue>>

\* The token of a registration: jwt.sign({email: newUser.email, role: "user"}).
RegisterToken(newUser) ==
    Sign([email |-> Field(newUser, "email"), role |-> "user"])

\* const newUser = await collection.insertOne({...}); sign; res.status(201)
RegisterInsertOne(r) ==
    /\ auth[r].kind = "register" /\ auth[r].pc = "insertOne"
    /\ LET doc == [email |-> auth[r].email, password |-> auth[r].hashed,
                   role |-> "user"]
           newUser == InsertOneResult(users)
       IN  /\ users' = InsertOne(users, doc)
           /\ auth' = [auth EXCEPT ![r] =
                        [@ EXCEPT !.pc = "done",
                                  !.res = [status |-> 201, success |-> TRUE,
                                           message |-> "User registered successfully!",
                                           accessToken |-> RegisterToken(newUser),
                                           user |-> [email |-> auth[r].email,
                                                     role |-> "user"]]]]
    /\ UNCHANGED <<server, catalogue>>

\* A store call of the handler rejects.  The handler has no try/catch, so the
\* async function's promise rejects and no response is sent.
RegisterStoreRejects(r) ==
    /\ auth[r].kind = "register" /\ auth[r].pc \in {"findOne", "insertOne"}
    /\ auth' = [auth EXCEPT ![r] = [@ EXCEPT !.pc = "rejected", !.failed = "store"]]
    /\ UNCHANGED <<server, users, catalogue>>

(***************************************************************************)
(* POST /api/v1/login                                                      *)
(***************************************************************************)

LoginStart(r, email, password) ==
    /\ auth[r].pc = "idle"
    /\ auth' = [auth EXCEPT ![r] =
                  [IdleAuth EXCEPT !.kind = "login", !.pc = "findOne",
                                   !.email = email, !.password = password,
                                   !.prior = Answered(auth)]]
    /\ UNCHANGED <<server, users, catalogue>>

\* The body of both 401 answers of the login handler.
InvalidCredentials == [status |-> 401, message |-> "Invalid email or password"]

\* An answer that tells the caller the email is not registered.
LoginUnknownEmail(user) == [status |-> 404, message |-> "User not found"]

\* if (!user) return res.status(401).json({message: "Invalid email or password"})
LoginNoUser(user) == InvalidCredentials

\* if (!isPasswordValid) return res.status(401).json({message: ...})
LoginBadPassword(user) == InvalidCredentials

\* The token of a login: jwt.sign({email: user.email, role: user.role}).
LoginToken(user) == Sign([email |-> user.email, role |-> user.role])

\* const user = await collection.findOne({ email });
LoginFindOne(r) ==
    /\ auth[r].kind = "login" /\ auth[r].pc = "findOne"
    /\ LET user == FindOneByEmail(users, auth[r].email)
       IN  auth' = [auth EXCEPT ![r] =
                IF user = <<>>
                THEN [@ EXCEPT !.user = user, !.pc = "done",
                               !.res = LoginNoUser(user)]
                ELSE [@ EXCEPT !.user = user, !.pc = "compare"]]
    /\ UNCHANGED <<server, users, catalogue>>

\* const isPasswordValid = await bcrypt.compare(password, user.password);
LoginCompare(r) ==
    /\ auth[r].kind = "login" /\ auth[r].pc = "compare"
    /\ LET user == auth[r].user[1]
       IN  auth' = [auth EXCEPT ![r] =
                IF BcryptRejects(auth[r].password)
                THEN [@ EXCEPT !.pc = "rejected", !.failed = "bcrypt"]
                ELSE IF ~Compare(auth[r].password, user.password)
                THEN [@ EXCEPT !.pc = "done", !.res = LoginBadPassword(user)]
                ELSE [@ EXCEPT !.pc = "done",
                               !.res = [status |-> 200, success |-> TRUE,
                                        message |-> "User successfully logged in!",
                                        accessToken |-> LoginToken(user),
                                        user |-> [email |-> user.email,
                                                  role |-> user.role]]]]
    /\ UNCHANGED <<server, users, catalogue>>

\* The findOne of the login handler rejects; the handler has no try/catch.
LoginStoreRejects(r) ==
    /\ auth[r].kind = "login" /\ auth[r].pc = "findOne"
    /\ auth' = [auth EXCEPT ![r] = [@ EXCEPT !.pc = "rejected", !.failed = "store"]]
    /\ UNCHANGED <<server, users, catalogue>>

(***************************************************************************)
(* JavaScript values of the listing handler.  A query string is a sequence *)
(* of characters; a query parameter is <<>> when the request has none and  *)
(* <<string>> when it has one.  A number is NaN, Infinity, or a fraction    *)
(* <<"num", n, d>> in lowest terms with d > 0.                             *)
(***************************************************************************)

Absent == <<>>
Given(s) == <<s>>

NaN == <<"NaN">>
Infinity == <<"Infinity">>
Null == <<"null">>

Digits == <<"0", "1", "2", "3", "4", "5", "6", "7", "8", "9">>

IsDigit(c) == \E i \in 1..10 : Digits[i] = c

DigitValue(c) == (CHOOSE i \in 1..10 : Digits[i] = c) - 1

RECURSIVE Gcd(_, _)
Gcd(a, b) == IF b = 0 THEN a ELSE Gcd(b, a % b)

Abs(n) == IF n < 0 THEN -n ELSE n

Rat(n, d) == LET g == Gcd(Abs(n), d) IN <<"num", n \div g, d \div g>>

Num(n) == <<"num", n, 1>>

IsNum(x) == x[1] = "num"

\* A number the store takes as a skip or a limit.
IsNat(x) == IsNum(x) /\ x[3] = 1 /\ x[2] >= 0

RECURSIVE Pow10(_)
Pow10(k) == IF k = 0 THEN 1 ELSE 10 * Pow10(k - 1)

\* The value of a string of decimal digits (0 for the empty string).
RECURSIVE DigitsValue(_)
DigitsValue(s) ==
    IF s = <<>> THEN 0
    ELSE 10 * DigitsValue(SubSeq(s, 1, Len(s) - 1)) + DigitValue(s[Len(s)])

\* parseInt(s, 10): the leading digits of s, NaN when s starts with none.
ParseInt(s) ==
    LET stops == {i \in 1..Len(s) : ~IsDigit(s[i])}
        n == IF stops = {} THEN Len(s)
             ELSE (CHOOSE i \in stops : \A j \in stops : i <= j) - 1
    IN  IF n = 0 THEN NaN ELSE Num(DigitsValue(SubSeq(s, 1, n)))

\* Number(s), the conversion the operators - and / apply to a string: the
\* whole string has to be a decimal literal; the empty string is 0.
ToNumber(s) ==
    LET dots == {i \in 1..Len(s) : s[i] = "."}
        others == {i \in 1..Len(s) : ~IsDigit(s[i]) /\ s[i] # "."}
        dot == IF dots = {} THEN Len(s) + 1 ELSE CHOOSE i \in dots : TRUE
        whole == SubSeq(s, 1, dot - 1)
        frac == SubSeq(s, dot + 1, Len(s))
    IN  IF s = <<>> THEN Num(0)
        ELSE IF others # {} \/ Cardinality(dots) > 1 THEN NaN
        ELSE IF Len(whole) + Len(frac) = 0 THEN NaN
        ELSE Rat(DigitsValue(whole) * Pow10(Len(frac)) + DigitsValue(frac),
                 Pow10(Len(frac)))

\* x - y and x * y on numbers that are finite or NaN.
Sub(x, y) ==
    IF IsNum(x) /\ IsNum(y) THEN Rat(x[2] * y[3] - y[2] * x[3], x[3] * y[3])
    ELSE NaN

Mul(x, y) ==
    IF IsNum(x) /\ IsNum(y) THEN Rat(x[2] * y[2], x[3] * y[3]) ELSE NaN

\* x / y for a finite x >= 0 and a y >= 0 that is finite or NaN.
Div(x, y) ==
    IF ~(IsNum(x) /\ IsNum(y)) THEN NaN
    ELSE IF y[2] = 0 THEN (IF x[2] = 0 THEN NaN ELSE Infinity)
    ELSE Rat(x[2] * y[3], x[3] * y[2])

\* Math.ceil.
Ceil(x) == IF IsNum(x) THEN Num(-((-x[2]) \div x[3])) ELSE x

\* A number as res.json sends it: JSON has no NaN and no Infinity.
Json(x) == IF x \in {NaN, Infinity} THEN Null ELSE x

\* if (param): a parameter that is present and not the empty string.
Truthy(param) == param # Absent /\ param[1] # <<>>

(***************************************************************************)
(* The product collection.                                                 *)
(***************************************************************************)

Men == <<"m", "e", "n">>
Kids == <<"k", "i", "d", "s">>
Asc == <<"a", "s", "c">>
Desc == <<"d", "e", "s", "c">>

\* The bodies the clients send to create or update a product.  With the
\* seed products they give two prices in one category and one price twice.
ProductBodies ==
    {[category |-> Men, price |-> 10], [category |-> Kids, price |-> 10]}

\* The products somebody put in the collection before the server started:
\* any prefix of these (men 20, kids 10, men 10, kids 20, ...).
SeedProducts ==
    [i \in 1..MaxSeed |->
        [id |-> i,
         category |-> IF i % 2 = 1 THEN Men ELSE Kids,
         price |-> IF i % 4 \in {1, 0} THEN 20 ELSE 10]]

\* An identifier string new ObjectId(id) throws on.
MalformedId == 0

\* The identifiers the clients ask for: a malformed one and three well-formed
\* ones, which the store has assigned or will assign.
IdInputs == {MalformedId} \cup (1..3)

\* Query parameters of the listing.
Pages == {Absent, Given(<<"0">>), Given(<<"1">>), Given(<<"2">>)}
Limits == {Absent, Given(<<>>), Given(<<"0">>), Given(<<"1">>), Given(<<"2">>),
           Given(<<"1", ".", "5">>), Given(<<"2", "a">>)}
CategoryFilters == {Absent, Given(Men), Given(Kids)}
Sorts == {Absent, Given(Asc), Given(Desc)}

\* The query object: {} or {category}.
Query(category) == IF Truthy(category) THEN category ELSE Absent

Matches(doc, query) == query = Absent \/ doc.category = query[1]

\* The documents a query selects, in natural order.
RECURSIVE Filter(_, _)
Filter(coll, query) ==
    IF coll = <<>> THEN <<>>
    ELSE IF Matches(Head(coll), query)
         THEN <<Head(coll)>> \o Filter(Tail(coll), query)
         ELSE Filter(Tail(coll), query)

\* A count that leaves the query out.
CountAllDocuments(coll, query) == Len(coll)

\* collection.countDocuments(query).
CountDocuments(coll, query) == Len(Filter(coll, query))

\* The sort key of a document; a missing field sorts before every number.
SortKey(doc, field) == IF field \in DOMAIN doc THEN doc[field] ELSE -1

\* seq is ordered by the field, ascending (dir = 1) or descending (dir = -1).
InOrder(seq, opt) ==
    \A i, j \in 1..Len(seq) :
        i < j => opt.dir * SortKey(seq[i], opt.field)
                    <= opt.dir * SortKey(seq[j], opt.field)

\* cursor.sort(opt): the orders the store may return the documents in.  The
\* order of documents with equal keys is not specified.
SortedOrders(docs, opt) ==
    LET n == Len(docs)
        perms == {p \in [1..n -> 1..n] : \A i, j \in 1..n : i # j => p[i] # p[j]}
    IN  {s \in {[i \in 1..n |-> docs[p[i]]] : p \in perms} : InOrder(s, opt)}

\* cursor.skip(skip).limit(limit): a limit of 0 is no limit.
Window(seq, skip, limit) ==
    LET last == IF limit = 0 \/ skip + limit > Len(seq) THEN Len(seq)
                ELSE skip + limit
    IN  SubSeq(seq, skip + 1, last)

(***************************************************************************)
(* GET /api/v1/products                                                    *)
(***************************************************************************)

IdleList ==
    [pc |-> "idle", page |-> Absent, limit |-> Absent, category |-> Absent,
     sort |-> Absent, found |-> <<>>, stale |-> FALSE, res |-> NoResponse,
     failed |-> ""]

ListStart(r, page, limit, category, sort) ==
    /\ list[r].pc = "idle"
    /\ list' = [list EXCEPT ![r] =
                  [IdleList EXCEPT !.pc = "find", !.page = page, !.limit = limit,
                                   !.category = category, !.sort = sort]]
    /\ UNCHANGED <<server, accounts, products, nextId, crud>>

\* const { page = 1 } = req.query, as the text parseInt and Number read.
PageText(page) == IF page = Absent THEN <<"1">> ELSE page[1]

\* index.js: sort present: by price, ascending for "asc" and descending for
\* anything else; sort absent: by createdAt, newest first.
SortOption(sort) ==
    IF Truthy(sort)
    THEN [field |-> "price", dir |-> IF sort[1] = Asc THEN 1 ELSE -1]
    ELSE [field |-> "createdAt", dir |-> -1]

\* A skip that starts the first page one page in.
SkipFromPage(page, parsedLimit) == Mul(ToNumber(PageText(page)), parsedLimit)

\* const skip = (page - 1) * parsedLimit;
Skip(page, parsedLimit) ==
    Mul(Sub(ToNumber(PageText(page)), Num(1)), parsedLimit)

\* Math.ceil(totalProducts / limit) without the test for a missing limit.
TotalPagesUnguarded(limit, totalProducts) ==
    Ceil(Div(Num(totalProducts),
             IF limit = Absent THEN NaN ELSE ToNumber(limit[1])))

\* totalPages: limit ? Math.ceil(totalProducts / limit) : 1
TotalPages(limit, totalProducts) ==
    IF Truthy(limit) THEN Ceil(Div(Num(totalProducts), ToNumber(limit[1])))
    ELSE Num(1)

ListFailure == [status |-> 500, success |-> FALSE]

\* const products = await productQuery.toArray();  (index.js)
ListFind(r) ==
    /\ server = "index.js"
    /\ list[r].pc = "find"
    /\ LET docs == Filter(products, Query(list[r].category))
           opt == SortOption(list[r].sort)
           parsedLimit == ParseInt(list[r].limit[1])
           skip == Skip(list[r].page, parsedLimit)
       IN  IF ~Truthy(list[r].limit)
           THEN \E ord \in SortedOrders(docs, opt) :
                    list' = [list EXCEPT ![r] = [@ EXCEPT !.found = ord,
                                                          !.pc = "count"]]
           ELSE IF ~(IsNat(skip) /\ IsNat(parsedLimit))
           THEN \* the store refuses a negative skip; the catch answers 500
                list' = [list EXCEPT ![r] = [@ EXCEPT !.pc = "done",
                                                      !.failed = "store",
                                                      !.res = ListFailure]]
           ELSE \E ord \in SortedOrders(docs, opt) :
                    list' = [list EXCEPT ![r] =
                               [@ EXCEPT !.found = Window(ord, skip[2], parsedLimit[2]),
                                         !.pc = "count"]]
    /\ UNCHANGED <<server, accounts, products, nextId, crud>>

\* const totalProducts = await productCollection.countDocuments(query);
\* res.json({...})  (index.js)
ListCount(r) ==
    /\ server = "index.js"
    /\ list[r].pc = "count"
    /\ LET totalProducts == CountDocuments(products, Query(list[r].category))
       IN  list' = [list EXCEPT ![r] =
                [@ EXCEPT !.pc = "done",
                          !.res = [status |-> 200, success |-> TRUE,
                                   products |-> list[r].found,
                                   totalProducts |-> totalProducts,
                                   totalPages |->
                                       Json(TotalPages(list[r].limit, totalProducts)),
                                   currentPage |->
                                       Json(ParseInt(PageText(list[r].page)))]]]
    /\ UNCHANGED <<server, accounts, products, nextId, crud>>

\* part_000: const limit = 9; // 9 products per page
PageLimit == 9

\* part_000: sort === "asc" ? { price: 1 } : { price: -1 }
SortOptionFixed(sort) ==
    [field |-> "price", dir |-> IF sort = Given(Asc) THEN 1 ELSE -1]

\* part_000: find(query).sort(sortOption).skip(skip).limit(limit).toArray()
ListFindFixed(r) ==
    /\ server = "part_000"
    /\ list[r].pc = "find"
    /\ LET docs == Filter(products, Query(list[r].category))
           opt == SortOptionFixed(list[r].sort)
           skip == Skip(list[r].page, Num(PageLimit))
       IN  IF ~IsNat(skip)
           THEN list' = [list EXCEPT ![r] = [@ EXCEPT !.pc = "done",
                                                      !.failed = "store",
                                                      !.res = ListFailure]]
           ELSE \E ord \in SortedOrders(docs, opt) :
                    list' = [list EXCEPT ![r] =
                               [@ EXCEPT !.found = Window(ord, skip[2], PageLimit),
                                         !.pc = "count"]]
    /\ UNCHANGED <<server, accounts, products, nextId, crud>>

\* part_000: totalPages: Math.ceil(totalProducts / limit)
ListCountFixed(r) ==
    /\ server = "part_000"
    /\ list[r].pc = "count"
    /\ LET totalProducts == CountDocuments(products, Query(list[r].category))
       IN  list' = [list EXCEPT ![r] =
                [@ EXCEPT !.pc = "done",
                          !.res = [status |-> 200, success |-> TRUE,
                                   products |-> list[r].found,
                                   totalProducts |-> totalProducts,
                                   totalPages |->
                                       Json(Ceil(Div(Num(totalProducts),
                                                     Num(PageLimit)))),
                                   currentPage |->
                                       Json(ParseInt(PageText(list[r].page)))]]]
    /\ UNCHANGED <<server, accounts, products, nextId, crud>>

\* The find or the count rejects: catch (error) { res.status(500).json(...) }
ListStoreRejects(r) ==
    /\ list[r].pc \in {"find", "count"}
    /\ list' = [list EXCEPT ![r] = [@ EXCEPT !.pc = "done", !.failed = "store",
                                             !.res = ListFailure]]
    /\ UNCHANGED <<server, accounts, products, nextId, crud>>

(***************************************************************************)
(* POST, GET, PUT, DELETE /api/v1/products[/:id]                           *)
(***************************************************************************)

IdleCrud ==
    [kind |-> "none", pc |-> "idle", id |-> MalformedId, category |-> <<>>,
     price |-> 0, res |-> NoResponse, failed |-> "", prior |-> {}]

\* new ObjectId(id) throws on a malformed identifier.
ObjectIdThrows(id) == id = MalformedId

Failure == [status |-> 500, success |-> FALSE]
NotFound == [status |-> 404, success |-> FALSE, message |-> "Product not found"]

\* A write to the product collection lands between the find and the count of
\* the listings that have found and not yet counted.
MarkStale(reqs) ==
    [r \in DOMAIN reqs |->
        IF reqs[r].pc = "count" THEN [reqs[r] EXCEPT !.stale = TRUE] ELSE reqs[r]]

\* The positions of the documents with the identifier.
WithId(coll, id) == {i \in 1..Len(coll) : coll[i].id = id}

\* A handler that takes an identifier builds its filter before the store is
\* called: a malformed identifier is answered 500 from the catch at once.
\* The handler's locals once its synchronous part has run.
ArrivedWithId(kind, id, category, price, pc) ==
    IF ObjectIdThrows(id)
    THEN [IdleCrud EXCEPT !.kind = kind, !.pc = "done", !.id = id,
                          !.category = category, !.price = price,
                          !.failed = "id", !.res = Failure,
                          !.prior = Answered(crud)]
    ELSE [IdleCrud EXCEPT !.kind = kind, !.pc = pc, !.id = id,
                          !.category = category, !.price = price,
                          !.prior = Answered(crud)]

CreateStart(r, category, price) ==
    /\ crud[r].pc = "idle"
    /\ crud' = [crud EXCEPT ![r] =
                  [IdleCrud EXCEPT !.kind = "create", !.pc = "insertOne",
                                   !.category = category, !.price = price,
                                   !.prior = Answered(crud)]]
    /\ UNCHANGED <<server, accounts, products, nextId, list>>

\* const result = await productCollection.insertOne(newProduct);
CreateInsertOne(r) ==
    /\ crud[r].kind = "create" /\ crud[r].pc = "insertOne"
    /\ products' = Append(products, [id |-> nextId, category |-> crud[r].category,
                                     price |-> crud[r].price])
    /\ nextId' = nextId + 1
    /\ crud' = [crud EXCEPT ![r] =
                  [@ EXCEPT !.pc = "done", !.id = nextId,
                            !.res = [status |-> 201, success |-> TRUE]]]
    /\ list' = MarkStale(list)
    /\ UNCHANGED <<server, accounts>>

GetStart(r, id) ==
    /\ crud[r].pc = "idle"
    /\ crud' = [crud EXCEPT ![r] = ArrivedWithId("get", id, <<>>, 0, "findOne")]
    /\ UNCHANGED <<server, accounts, products, nextId, list>>

\* const product = await productCollection.findOne({_id: new ObjectId(id)});
GetFindOne(r) ==
    /\ crud[r].kind = "get" /\ crud[r].pc = "findOne"
    /\ crud' = [crud EXCEPT ![r] =
                  IF WithId(products, crud[r].id) = {}
                  THEN [@ EXCEPT !.pc = "done", !.res = NotFound]
                  ELSE [@ EXCEPT !.pc = "done",
                                 !.res = [status |-> 200, success |-> TRUE,
                                          product |->
                                            products[CHOOSE i \in
                                                WithId(products, crud[r].id) : TRUE]]]]
    /\ UNCHANGED <<server, accounts, products, nextId, list>>

UpdateStart(r, id, category, price) ==
    /\ crud[r].pc = "idle"
    /\ crud' = [crud EXCEPT ![r] =
                  ArrivedWithId("update", id, category, price, "updateOne")]
    /\ UNCHANGED <<server, accounts, products, nextId, list>>

\* updateOne({_id}, {$set: {...}}): the collection after the write.
UpdateOne(coll, id, category, price) ==
    [i \in 1..Len(coll) |->
        IF coll[i].id = id
        THEN [coll[i] EXCEPT !.category = category, !.price = price]
        ELSE coll[i]]

\* const result = await productCollection.updateOne(...);
\* if (result.matchedCount === 0) 404
UpdateUpdateOne(r) ==
    /\ crud[r].kind = "update" /\ crud[r].pc = "updateOne"
    /\ LET matchedCount == Cardinality(WithId(products, crud[r].id))
       IN  /\ products' = UpdateOne(products, crud[r].id, crud[r].category,
                                    crud[r].price)
           /\ crud' = [crud EXCEPT ![r] =
                        IF matchedCount = 0
                        THEN [@ EXCEPT !.pc = "done", !.res = NotFound]
                        ELSE [@ EXCEPT !.pc = "done",
                                       !.res = [status |-> 200, success |-> TRUE]]]
           /\ list' = IF matchedCount = 0 THEN list ELSE MarkStale(list)
    /\ UNCHANGED <<server, accounts, nextId>>

DeleteStart(r, id) ==
    /\ crud[r].pc = "idle"
    /\ crud' = [crud EXCEPT ![r] =
                  ArrivedWithId("delete", id, <<>>, 0, "deleteOne")]
    /\ UNCHANGED <<server, accounts, products, nextId, list>>

\* deleteOne({_id}): the collection after the write.
DeleteOne(coll, id) == SelectSeq(coll, LAMBDA doc : doc.id # id)

\* A result that reports a deletion whatever the filter matched.
DeletedCountAcknowledged(coll, id) == 1

\* result.deletedCount of deleteOne({_id}).
DeletedCount(coll, id) == Len(coll) - Len(DeleteOne(coll, id))

\* const result = await productCollection.deleteOne(...);
\* if (result.deletedCount === 0) 404
DeleteDeleteOne(r) ==
    /\ crud[r].kind = "delete" /\ crud[r].pc = "deleteOne"
    /\ LET deletedCount == DeletedCount(products, crud[r].id)
       IN  /\ products' = DeleteOne(products, crud[r].id)
           /\ crud' = [crud EXCEPT ![r] =
                        IF deletedCount = 0
                        THEN [@ EXCEPT !.pc = "done", !.res = NotFound]
                        ELSE [@ EXCEPT !.pc = "done",
                                       !.res = [status |-> 200, success |-> TRUE]]]
           /\ list' = IF deletedCount = 0 THEN list ELSE MarkStale(list)
    /\ UNCHANGED <<server, accounts, nextId>>

\* The store call rejects: catch (error) { res.status(500).json(...) }
CrudStoreRejects(r) ==
    /\ crud[r].pc \in {"insertOne", "findOne", "updateOne", "deleteOne"}
    /\ crud' = [crud EXCEPT ![r] = [@ EXCEPT !.pc = "done", !.failed = "store",
                                             !.res = Failure]]
    /\ UNCHANGED <<server, accounts, products, nextId, list>>

(***************************************************************************)
(* Specifications.                                                         *)
(***************************************************************************)

InitAccounts ==
    /\ users \in {<<>>, <<SeedUser>>}
    /\ auth = [r \in AuthReqs |-> IdleAuth]

InitCatalogue ==
    /\ \E n \in 0..MaxSeed :
          /\ products = SubSeq(SeedProducts, 1, n)
          /\ nextId = n + 1
    /\ list = [r \in ListReqs |-> IdleList]
    /\ crud = [r \in CrudReqs |-> IdleCrud]

Init == server \in Servers /\ InitAccounts /\ InitCatalogue

NextAuth ==
    \E r \in AuthReqs :
        \/ \E e \in Emails, p \in Passwords : RegisterStart(r, e, p)
        \/ RegisterFindOne(r)
        \/ RegisterHash(r)
        \/ RegisterInsertOne(r)
        \/ RegisterStoreRejects(r)
        \/ \E e \in Emails, p \in Passwords : LoginStart(r, e, p)
        \/ LoginFindOne(r)
        \/ LoginCompare(r)
        \/ LoginStoreRejects(r)

NextCrudOf(reqs) ==
    \E r \in reqs :
        \/ \E b \in ProductBodies : CreateStart(r, b.category, b.price)
        \/ CreateInsertOne(r)
        \/ \E id \in IdInputs : GetStart(r, id)
        \/ GetFindOne(r)
        \/ \E id \in IdInputs, b \in ProductBodies :
              UpdateStart(r, id, b.category, b.price)
        \/ UpdateUpdateOne(r)
        \/ \E id \in IdInputs : DeleteStart(r, id)
        \/ DeleteDeleteOne(r)
        \/ CrudStoreRejects(r)

NextCrud == NextCrudOf(CrudReqs)

NextList ==
    \E r \in ListReqs :
        \/ \E pg \in Pages, lim \in Limits, c \in CategoryFilters, so \in Sorts :
              ListStart(r, pg, lim, c, so)
        \/ ListFind(r)
        \/ ListCount(r)
        \/ ListFindFixed(r)
        \/ ListCountFixed(r)
        \/ ListStoreRejects(r)

Next == NextAuth \/ NextCrud \/ NextList

Spec == Init /\ [][Next]_vars

\* The account handlers alone, next to an empty product collection.
InitAuth ==
    /\ server \in Servers /\ InitAccounts
    /\ products = <<>> /\ nextId = 1
    /\ list = [r \in ListReqs |-> IdleList]
    /\ crud = [r \in CrudReqs |-> IdleCrud]

SpecAuth == InitAuth /\ [][NextAuth]_vars

\* The product handlers that take one store call each, next to an empty user
\* collection.  What the model follows of these handlers is the same in both
\* files.
InitCrud == server = "index.js" /\ InitCatalogue /\ users = <<>>
            /\ auth = [r \in AuthReqs |-> IdleAuth]

SpecCrud == InitCrud /\ [][NextCrud]_vars

\* The listing next to one request of the handlers that write the product
\* collection, next to an empty user collection.
ListWriters == {1}

InitList == server \in Servers /\ InitCatalogue /\ users = <<>>
            /\ auth = [r \in AuthReqs |-> IdleAuth]

SpecList == InitList /\ [][NextList \/ NextCrudOf(ListWriters)]_vars

(***************************************************************************)
(* Properties of the account handlers (checked under SpecAuth).            *)
(***************************************************************************)

\* The documents of the collection that carry the email.
WithEmail(coll, email) == {i \in 1..Len(coll) : coll[i].email = email}

\* The registrations of the email that were answered 201.
Registered(email) ==
    {r \in AuthReqs : /\ auth[r].kind = "register" /\ auth[r].email = email
                      /\ auth[r].res.status = 201}

\* Two registrations of one email that both read "no such user" and both ran
\* to their answer.
RacingRegistrations(r1, r2) ==
    /\ r1 # r2
    /\ auth[r1].kind = "register" /\ auth[r2].kind = "register"
    /\ auth[r1].email = auth[r2].email
    /\ auth[r1].pc = "done" /\ auth[r1].user = <<>>
    /\ auth[r2].pc = "done" /\ auth[r2].user = <<>>

\* C1: two registrations of the same email that both passed the existence
\* check before either inserted both insert and both answer 201: the user
\* collection then holds two documents with that email.
C1_RaceInsertsTwice ==
    \A r1, r2 \in AuthReqs :
        RacingRegistrations(r1, r2) =>
            /\ auth[r1].res.status = 201
            /\ auth[r2].res.status = 201
            /\ Cardinality(WithEmail(users, auth[r1].email)) >= 2

\* C1 witness: the race has happened, neither request ran after the other.
C1_Witness ==
    \E r1, r2 \in AuthReqs :
        /\ RacingRegistrations(r1, r2)
        /\ r1 \notin auth[r2].prior /\ r2 \notin auth[r1].prior
        /\ auth[r1].res.status = 201 /\ auth[r2].res.status = 201
        /\ Cardinality(WithEmail(users, auth[r1].email)) = 2

\* r2 is a registration of the email r1 registered, and arrived after r1 was
\* answered 201.
RegisteredAgain(r1, r2) ==
    /\ auth[r1].kind = "register" /\ auth[r2].kind = "register"
    /\ auth[r1].email = auth[r2].email
    /\ auth[r1].res.status = 201
    /\ r1 \in auth[r2].prior
    /\ auth[r2].pc = "done"

\* C2: of two registrations of one email handled one after the other, the
\* first answers 201 and inserts one document, the second answers 400 with
\* success false and inserts nothing: the documents the handler wrote for an
\* email are as many as the registrations of it that answered 201.
C2_SequentialDuplicate ==
    /\ \A r1, r2 \in AuthReqs :
          RegisteredAgain(r1, r2) =>
              /\ auth[r2].res.status = 400
              /\ auth[r2].res.success = FALSE
    /\ \A e \in Emails :
          Cardinality({i \in WithEmail(users, e) : users[i].role = "user"})
              = Cardinality(Registered(e))

\* C2 witness: a registration answered 201, and a later one of the same email
\* answered 400.
C2_Witness ==
    \E r1, r2 \in AuthReqs :
        /\ RegisteredAgain(r1, r2)
        /\ auth[r2].res.status = 400
        /\ Cardinality(WithEmail(users, auth[r1].email)) = 1

\* C3: a request whose store call failed still ends with a 400/401/404/500
\* response (the product handlers answer 500; stated here for the account
\* handlers, where it fails).
C3_StoreFailureAnswered ==
    \A r \in AuthReqs :
        auth[r].failed = "store" => auth[r].res.status \in {400, 401, 404, 500}

\* A login that found no user, and a login that found one whose password does
\* not match the one given; both answered.
UnknownEmailLogin(r) ==
    /\ auth[r].kind = "login" /\ auth[r].pc = "done"
    /\ auth[r].user = <<>>

WrongPasswordLogin(r) ==
    /\ auth[r].kind = "login" /\ auth[r].pc = "done"
    /\ auth[r].user # <<>>
    /\ ~Compare(auth[r].password, auth[r].user[1].password)

\* C4: a login with an unknown email and a login with a wrong password get
\* the same response, status 401 with one message and no token, and no step
\* of a login changes the user collection.
C4_LoginFailuresAlike ==
    [][ /\ \A r \in AuthReqs :
              (auth[r].kind = "login" /\ auth'[r] # auth[r]) => users' = users
        /\ \A r1, r2 \in AuthReqs :
              (UnknownEmailLogin(r1) /\ WrongPasswordLogin(r2))' =>
                  /\ auth'[r1].res = auth'[r2].res
                  /\ auth'[r1].res.status = 401
                  /\ "accessToken" \notin DOMAIN auth'[r2].res
      ]_vars

\* C4 witness: both kinds of failed login have been answered.
C4_Witness ==
    \E r1, r2 \in AuthReqs :
        /\ UnknownEmailLogin(r1) /\ WrongPasswordLogin(r2)
        /\ auth[r1].res.status = 401 /\ auth[r2].res.status = 401

\* C5: the token of a successful registration carries the email registered
\* and the role "user"; the token of a successful login carries the email and
\* the role of the stored user.
C5_TokenCarriesAccount ==
    \A r \in AuthReqs :
        /\ (auth[r].kind = "register" /\ auth[r].res.status = 201) =>
              /\ Field(auth[r].res.accessToken, "email") = auth[r].email
              /\ Field(auth[r].res.accessToken, "role") = "user"
        /\ (auth[r].kind = "login" /\ auth[r].res.status = 200) =>
              /\ Field(auth[r].res.accessToken, "email") = auth[r].user[1].email
              /\ Field(auth[r].res.accessToken, "role") = auth[r].user[1].role

(***************************************************************************)
(* Properties of the product handlers (checked under SpecList, SpecCrud).  *)
(***************************************************************************)

\* The products of the collection a listing with this category parameter is
\* to select: all of them when the parameter is absent.
MatchingProducts(coll, category) ==
    {coll[i] : i \in {j \in 1..Len(coll) :
                        category = Absent \/ coll[j].category = category[1]}}

\* The sequence holds exactly the documents of the set, each once.
HoldsExactly(seq, docs) ==
    /\ Len(seq) = Cardinality(docs)
    /\ {seq[i] : i \in 1..Len(seq)} = docs

\* The step in which the listing's find executes, and the step in which its
\* count executes and the response is sent.
FindStep(r) == list[r].pc = "find" /\ list'[r].pc = "count"
CountStep(r) == list[r].pc = "count" /\ list'[r].res.status = 200

\* What C6 says of one listing without a limit parameter.
ReturnsAllOnOnePage(r) ==
    /\ FindStep(r) =>
          HoldsExactly(list'[r].found,
                       MatchingProducts(products, list[r].category))
    /\ CountStep(r) =>
          /\ list'[r].res.products = list[r].found
          /\ list'[r].res.totalPages = Num(1)

\* C6 as stated, for the listing of either file: without a limit parameter
\* the response holds every matching product and totalPages is 1.
C6_NoLimitReturnsAll_AnyServer ==
    [][\A r \in ListReqs : list[r].limit = Absent => ReturnsAllOnOnePage(r)]_vars

\* C6: the listing of src/index.js answers a request without a limit
\* parameter with every product matching the category filter, whatever the
\* sort, and with totalPages = 1.
C6_NoLimitReturnsAll ==
    [][\A r \in ListReqs :
          (server = "index.js" /\ list[r].limit = Absent) =>
              ReturnsAllOnOnePage(r)]_vars

\* C6 witness: a listing without limit was answered with at least two
\* products under a category filter.
C6_Witness ==
    \E r \in ListReqs :
        /\ server = "index.js"
        /\ list[r].limit = Absent /\ list[r].category # Absent
        /\ list[r].res.status = 200
        /\ Len(list[r].res.products) >= 2
        /\ list[r].res.totalPages = Num(1)

\* A query string that is a positive integer in decimal digits.
PositiveInteger(s) ==
    /\ s # <<>>
    /\ \A i \in 1..Len(s) : IsDigit(s[i])
    /\ DigitsValue(s) > 0

\* seq is ordered by price as the sort parameter says: ascending for "asc",
\* descending for any other value.
OrderedByPrice(seq, sort) ==
    \A i, j \in 1..Len(seq) :
        i < j => IF sort = Given(Asc) THEN seq[i].price <= seq[j].price
                 ELSE seq[i].price >= seq[j].price

\* The orderings by price of a set of products.
PriceOrderings(docs, sort) ==
    LET n == Cardinality(docs)
    IN  {s \in [1..n -> docs] :
            /\ \A i, j \in 1..n : i # j => s[i] # s[j]
            /\ OrderedByPrice(s, sort)}

\* Positions (P-1)*L .. (P-1)*L+L-1 of a sequence, counted from 0.
PageOf(seq, P, L) ==
    LET first == (P - 1) * L + 1
        last == IF first + L - 1 > Len(seq) THEN Len(seq) ELSE first + L - 1
    IN  [i \in 1..(IF last < first THEN 0 ELSE last - first + 1) |->
            seq[first + i - 1]]

\* What C7 says of one listing with limit = L, page = P and a sort.
ReturnsPage(r) ==
    LET L == DigitsValue(list[r].limit[1])
        P == DigitsValue(list[r].page[1])
    IN  FindStep(r) =>
            /\ Len(list'[r].found) <= L
            /\ \E ord \in PriceOrderings(
                    MatchingProducts(products, list[r].category), list[r].sort) :
                    list'[r].found = PageOf(ord, P, L)

PagedAndSorted(r) ==
    /\ list[r].limit # Absent /\ PositiveInteger(list[r].limit[1])
    /\ list[r].page # Absent /\ PositiveInteger(list[r].page[1])
    /\ list[r].sort # Absent

\* C7 as stated, for the listing of either file: with limit = L and page = P
\* the response holds at most L products, those at positions (P-1)*L ..
\* (P-1)*L+L-1 of the matching products in the order of the sort parameter.
C7_PageWindow_AnyServer ==
    [][\A r \in ListReqs : PagedAndSorted(r) => ReturnsPage(r)]_vars

\* C7: the listing of src/index.js answers limit = L and page = P (positive
\* integers) with at most L products, those at positions (P-1)*L ..
\* (P-1)*L+L-1 of the matching products ordered by price, ascending for
\* sort=asc and descending for any other sort given.
C7_PageWindow ==
    [][\A r \in ListReqs :
          (server = "index.js" /\ PagedAndSorted(r)) => ReturnsPage(r)]_vars

\* C7 witness: the second page of one product each has been read, and holds
\* a product.
C7_Witness ==
    \E r \in ListReqs :
        /\ server = "index.js"
        /\ list[r].pc \in {"count", "done"} /\ list[r].failed = ""
        /\ list[r].limit = Given(<<"1">>) /\ list[r].page = Given(<<"2">>)
        /\ list[r].sort = Given(Asc)
        /\ Len(list[r].found) = 1

\* C8: whenever the listing of src/index.js takes the limit parameter as
\* present, totalPages is ceil(totalProducts / limit) with limit parsed to an
\* integer.
C8_TotalPagesFromParsedLimit ==
    \A r \in ListReqs :
        (/\ server = "index.js"
         /\ list[r].res.status = 200
         /\ Truthy(list[r].limit)) =>
            list[r].res.totalPages =
                Json(Ceil(Div(Num(list[r].res.totalProducts),
                              ParseInt(list[r].limit[1]))))

\* The count of the response is the number of products matching the filter
\* when the count executes.
CountsMatching(r) ==
    CountStep(r) =>
        list'[r].res.totalProducts =
            Cardinality(MatchingProducts(products, list[r].category))

DeleteStep(r) ==
    /\ crud[r].kind = "delete" /\ crud[r].pc = "deleteOne"
    /\ crud'[r].pc = "done" /\ crud'[r].failed = ""

HasProduct(coll, id) == \E i \in 1..Len(coll) : coll[i].id = id

\* r2 deletes the product r1 deleted, and arrived after r1 was answered 200.
DeletedAgain(r1, r2) ==
    /\ crud[r1].kind = "delete" /\ crud[r2].kind = "delete"
    /\ crud[r1].id = crud[r2].id
    /\ crud[r1].res.status = 200
    /\ r1 \in crud[r2].prior
    /\ crud[r2].pc = "done" /\ crud[r2].failed = ""

\* C10: deleting a well-formed identifier that matches no product answers
\* 404 and leaves the collection as it is, deleting one that matches answers
\* 200 and removes the product, and a second delete of a product deleted
\* before answers 404.
C10_DeleteTwice ==
    [][ /\ \A r \in CrudReqs :
              DeleteStep(r) =>
                  IF HasProduct(products, crud[r].id)
                  THEN /\ crud'[r].res.status = 200
                       /\ ~HasProduct(products', crud[r].id)
                  ELSE /\ crud'[r].res.status = 404
                       /\ products' = products
        /\ \A r1, r2 \in CrudReqs :
              DeletedAgain(r1, r2)' => crud'[r2].res.status = 404
      ]_vars

\* C10 witness: a product was deleted and a later delete of it was answered.
C10_Witness ==
    \E r1, r2 \in CrudReqs :
        /\ DeletedAgain(r1, r2)
        /\ crud[r2].res.status = 404

====
